---- MODULE Spec2Model ----
(***************************************************************************)
(* Witness generation (executor/src/witgen/mod.rs).                        *)
(*                                                                         *)
(* WitnessGenerator::new / with_external_witness_values / generate and     *)
(* FixedData::new / FixedData::external_witness are translated from        *)
(* mod.rs.  The sub-modules that mod.rs only declares and calls            *)
(* (global_constraints, machines::machine_extractor, generator, the        *)
(* machines) are modelled from their description in the specification.    *)
(***************************************************************************)
EXTENDS Integers, Sequences, FiniteSets, TLC

\* ------------------------------------------------------------------ bounds
\* Largest trace degree passed to WitnessGenerator::new.
MaxDegree == 2
\* Longest list passed to with_external_witness_values.
MaxExt == 2

\* ------------------------------------------------------- field and options
\* T: FieldElement, here the prime field with three elements.
Field == {0, 1, 2}
P == Cardinality(Field)

\* Option<T>: None is <<>>, Some(v) is <<v>>.
None == <<>>
Some(v) == <<v>>
IsSome(o) == Len(o) = 1
Unwrap(o) == o[1]

Max(S) == CHOOSE x \in S : \A y \in S : y <= x
SeqRange(s) == {s[i] : i \in 1..Len(s)}

\* -------------------------------------------------- the analyzed PIL input
\* One committed-polynomial declaration of committed_polys_in_source_order():
\* absolute_name, id, length (is_some: an array) and whether its value is a
\* FunctionValueDefinition::Query.
Poly(name, id, isArray, hasQuery) ==
    [absolute_name |-> name, id |-> id, length |-> isArray, query |-> hasQuery]

\* A reference to a witness column in the current or the next row.
Term(col, next, coeff) == [col |-> col, next |-> next, coeff |-> coeff]

\* An identity  sum(coeff * column) + cfix * C + k = 0  over the field.
Affine(terms, cfix, k) == [kind |-> "affine", terms |-> terms, cfix |-> cfix, k |-> k]
\* The identity  col * (col - 1) = 0.
Bit(col) == [kind |-> "bit", terms |-> <<Term(col, FALSE, 1)>>, cfix |-> 0, k |-> 0]

\* W = C (scenario A of the specification).
ProgA == [polys |-> <<Poly("W", 0, FALSE, FALSE)>>,
          identities |-> <<Affine(<<Term("W", FALSE, 1)>>, 2, 0)>>]
\* W bound to a query, no identity (scenario B).
ProgB == [polys |-> <<Poly("W", 0, FALSE, TRUE)>>,
          identities |-> <<>>]
\* B * (B - 1) = 0 with a query on B (scenario C).
ProgC == [polys |-> <<Poly("B", 0, FALSE, TRUE)>>,
          identities |-> <<Bit("B")>>]
\* W = 1 and W = 2 (scenario E).
ProgE == [polys |-> <<Poly("W", 0, FALSE, FALSE)>>,
          identities |-> <<Affine(<<Term("W", FALSE, 1)>>, 0, 2),
                           Affine(<<Term("W", FALSE, 1)>>, 0, 1)>>]
\* W' = W + 1 with a query on W.
ProgN == [polys |-> <<Poly("W", 0, FALSE, TRUE)>>,
          identities |-> <<Affine(<<Term("W", TRUE, 1), Term("W", FALSE, 2)>>, 0, 2)>>]
\* Two independent columns, declared W before A:  W = C,  A = 2.
ProgM == [polys |-> <<Poly("W", 0, FALSE, FALSE), Poly("A", 1, FALSE, FALSE)>>,
          identities |-> <<Affine(<<Term("W", FALSE, 1)>>, 2, 0),
                           Affine(<<Term("A", FALSE, 1)>>, 0, 1)>>]
\* Two columns of one component:  W = C,  A' = W.
ProgL == [polys |-> <<Poly("W", 0, FALSE, FALSE), Poly("A", 1, FALSE, FALSE)>>,
          identities |-> <<Affine(<<Term("W", FALSE, 1)>>, 2, 0),
                           Affine(<<Term("A", TRUE, 1), Term("W", FALSE, 2)>>, 0, 0)>>]
\* A committed array.
ProgArr == [polys |-> <<Poly("W", 0, FALSE, FALSE), Poly("A", 1, TRUE, FALSE)>>,
            identities |-> <<Affine(<<Term("W", FALSE, 1)>>, 2, 0)>>]

Programs == {ProgA, ProgB, ProgC, ProgE, ProgN, ProgM, ProgL, ProgArr}

PolyNames(an) == {an.polys[i].absolute_name : i \in 1..Len(an.polys)}

\* The fixed column C handed to WitnessGenerator::new: C(r) = r mod 2.
FixedColValues(deg) == [r \in 1..deg |-> (r - 1) % 2]

\* --------------------------------------------- external witness overrides
\* The vectors a caller may supply for a trace of degree deg: v0, v0+1, ... of
\* length deg, and one vector that is one element too short and one that is one
\* too long (the elements of a vector of a wrong length are never read).
ExtVector(len, v0) == [i \in 1..len |-> (v0 + i - 1) % P]
ExtVectors(deg) ==
    {ExtVector(deg, v0) : v0 \in {0, 2}}
        \cup {ExtVector(len, 0) : len \in {deg - 1, deg + 1} \cap Nat}
ExtPairs(an, deg) == [name : PolyNames(an) \cup {"X"}, values : ExtVectors(deg)]
ExtLists(an, deg) == UNION {[1..n -> ExtPairs(an, deg)] : n \in 0..MaxExt}

VARIABLES
    analyzed,                 \* WitnessGenerator.analyzed
    degree,                   \* WitnessGenerator.degree
    external_witness_values,  \* WitnessGenerator.external_witness_values
    pc,                       \* position inside generate
    panicAt,                  \* which panic ended generate ("" if none)
    fixed,                    \* the FixedData built by FixedData::new
    constraints,              \* columns with a derived range constraint
    retained_identities,      \* identities kept by global constraint analysis
    machines,                 \* extracted machines (their witness sets)
    base_witnesses,           \* witnesses left to the main generator
    base_identities,          \* identities left to the main generator
    cells,                    \* values held by the generator and the machines
    row,                      \* row the generator is solving
    idx,                      \* position in the pass over the row
    progress,                 \* progress flag of the pass
    queryCalls,               \* number of invocations of query_callback
    conflictSeen,             \* a conflict was detected while solving
    runReturned,              \* Generator::run has returned
    taken,                    \* how often take_witness_col_values ran per owner
    takenEarly,               \* take_witness_col_values ran before run returned
    main_columns,             \* what the main generator yielded
    machine_columns,          \* what each machine yielded
    result,                   \* the Vec generate returns
    probe                     \* arguments and result of the external_witness call in progress

vars == <<analyzed, degree, external_witness_values, pc, panicAt, fixed, constraints,
          retained_identities, machines, base_witnesses, base_identities, cells, row, idx, progress,
          queryCalls, conflictSeen, runReturned, taken, takenEarly, main_columns, machine_columns,
          result, probe>>

\* ------------------------------------------------------------- FixedData
\* Faulty variant: the first pair of a name is kept instead of the last.
BTreeMapKeepFirst(list) ==
    [n \in {list[i].name : i \in 1..Len(list)} |->
        list[CHOOSE i \in 1..Len(list) :
               list[i].name = n /\ \A j \in 1..(i - 1) : list[j].name # n].values]

\* BTreeMap::from_iter(external_witness_values): a later pair replaces an
\* earlier pair of the same name.
BTreeMapFromIter(list) ==
    [n \in {list[i].name : i \in 1..Len(list)} |->
        list[Max({i \in 1..Len(list) : list[i].name = n})].values]

\* Faulty variant: only a vector that is too long is rejected.
ExternalLengthAtMost(values, deg) == Len(values) <= deg

\* assert_eq!(external_values.len(), degree as usize)
ExternalLengthOk(values, deg) == Len(values) = deg

\* WitnessColumn::new
WitnessColumn_new(id, name, hasQuery, external_values) ==
    [name |-> name, query |-> hasQuery, external_values |-> external_values]

\* The closure mapped over committed_polys_in_source_order() in FixedData::new:
\* the first failing check panics; map.remove takes the column's entry out.
RECURSIVE WitnessColumnMapFrom(_, _, _, _, _)
WitnessColumnMapFrom(polys, i, deg, map, acc) ==
    IF i > Len(polys) THEN [panic |-> "", cols |-> acc, rest |-> DOMAIN map]
    ELSE LET poly == polys[i]
             name == poly.absolute_name
             external_values == IF name \in DOMAIN map THEN Some(map[name]) ELSE None
             rest == [n \in DOMAIN map \ {name} |-> map[n]]
         IN  IF poly.length
               THEN [panic |-> "committed_array", cols |-> acc, rest |-> DOMAIN map]
             ELSE IF i - 1 # poly.id
               THEN [panic |-> "poly_id", cols |-> acc, rest |-> DOMAIN map]
             ELSE IF IsSome(external_values)
                     /\ ~ExternalLengthOk(Unwrap(external_values), deg)
               THEN [panic |-> "external_length", cols |-> acc, rest |-> DOMAIN rest]
             ELSE WitnessColumnMapFrom(polys, i + 1, deg, rest,
                    Append(acc, WitnessColumn_new(i - 1, name, poly.query, external_values)))

NoFixedData == [degree |-> 0, fixed_cols |-> <<>>, witness_cols |-> <<>>]

\* FixedData::new: the panic it ends in ("" if none) and the FixedData it builds.
FixedData_new(an, deg, fixed_col_values, ext) ==
    LET w == WitnessColumnMapFrom(an.polys, 1, deg, BTreeMapFromIter(ext), <<>>)
    IN  IF w.panic # "" THEN [panic |-> w.panic, data |-> NoFixedData]
        ELSE IF w.rest # {} THEN [panic |-> "non_existent_columns", data |-> NoFixedData]
        ELSE [panic |-> "",
              data |-> [degree |-> deg, fixed_cols |-> fixed_col_values,
                        witness_cols |-> w.cols]]

\* The panics raised inside FixedData::new.
FixedDataPanics == {"committed_array", "poly_id", "external_length", "non_existent_columns"}

\* Faulty variant: the row is not reduced modulo the degree.
RowIndexNoWrap(r, deg) == r

\* let row = row % self.degree;
RowIndex(r, deg) == r % deg

\* FixedData::external_witness(row, column); column is the PolyID's id.
external_witness(fd, r, column) ==
    IF fd.degree = 0 THEN [panic |-> "rem_by_zero", value |-> None]
    ELSE LET rw == RowIndex(r, fd.degree)
             ev == fd.witness_cols[column + 1].external_values
         IN  IF ~IsSome(ev) THEN [panic |-> "", value |-> None]
             ELSE IF rw + 1 > Len(Unwrap(ev))
               THEN [panic |-> "index_out_of_bounds", value |-> None]
             ELSE [panic |-> "", value |-> Some(Unwrap(ev)[rw + 1])]

\* FixedData::column_name for a committed column.
column_name(fd, column) == fd.witness_cols[column + 1].name

ColumnIds(fd) == 0..(Len(fd.witness_cols) - 1)
ColumnId(fd, name) == CHOOSE c \in ColumnIds(fd) : column_name(fd, c) = name

\* ------------------------------------------- global constraint analysis
IdentityColumns(id) == {id.terms[j].col : j \in 1..Len(id.terms)}

\* global_constraints::determine_global_constraints: an identity X * (X - 1) = 0
\* yields a range constraint on X and is removed; the rest is retained.
IsCaptured(id) == id.kind = "bit"
determine_global_constraints(identities) ==
    [constraints |-> UNION {IdentityColumns(identities[i]) :
                              i \in {j \in 1..Len(identities) : IsCaptured(identities[j])}},
     retained |-> SelectSeq(identities, LAMBDA id : ~IsCaptured(id))]

\* ---------------------------------------------------- machine extraction
\* The witnesses connected to S through the identities.
RECURSIVE Connected(_, _)
Connected(S, identities) ==
    LET T == S \cup UNION {IdentityColumns(identities[i]) :
                   i \in {j \in 1..Len(identities) : IdentityColumns(identities[j]) \cap S # {}}}
    IN  IF T = S THEN S ELSE Connected(T, identities)

\* The connected components of the retained identities.
Components(identities) ==
    {Connected(IdentityColumns(identities[i]), identities) : i \in 1..Len(identities)}

\* The components in the order of their first declared column.
FirstDeclared(an, S) == CHOOSE i \in 1..Len(an.polys) :
    /\ an.polys[i].absolute_name \in S
    /\ \A j \in 1..(i - 1) : an.polys[j].absolute_name \notin S
RECURSIVE InDeclarationOrder(_, _)
InDeclarationOrder(an, Cs) ==
    IF Cs = {} THEN <<>>
    ELSE LET c == CHOOSE x \in Cs : \A y \in Cs : FirstDeclared(an, x) <= FirstDeclared(an, y)
         IN  <<c>> \o InDeclarationOrder(an, Cs \ {c})

\* machine_extractor::split_out_machines: every extracted machine owns one
\* connected component (the ones that match a machine pattern, here: any choice
\* of components); everything else stays in the base set.
ExtractionOutput(an, identities, chosen) ==
    LET ms == InDeclarationOrder(an, chosen)
        owned == UNION chosen
    IN  [machines |-> ms,
         base_witnesses |-> PolyNames(an) \ owned,
         base_identities |-> SelectSeq(identities, LAMBDA id : IdentityColumns(id) \cap owned = {})]

\* The owner of a witness column: machine m (1..), or 0 for the main generator.
Owner(name) ==
    IF \E m \in 1..Len(machines) : name \in machines[m]
      THEN CHOOSE m \in 1..Len(machines) : name \in machines[m]
      ELSE 0
Owned(o) == IF o = 0 THEN base_witnesses ELSE machines[o]
Owners == 0..Len(machines)

\* ------------------------------------------------ affine evaluation algebra
Inv(a) == CHOOSE b \in Field : (a * b) % P = 1
Neg(a) == (P - (a % P)) % P

\* The row a term reads: the next row of the last row is row 0.
TermRow(t, r, deg) == IF t.next THEN (r + 1) % deg ELSE r
CellOf(cs, t, r, deg) == cs[t.col][TermRow(t, r, deg) + 1]

RECURSIVE KnownSum(_, _, _, _, _)
KnownSum(cs, terms, j, r, deg) ==
    IF j > Len(terms) THEN 0
    ELSE (IF IsSome(CellOf(cs, terms[j], r, deg))
            THEN terms[j].coeff * Unwrap(CellOf(cs, terms[j], r, deg)) ELSE 0)
         + KnownSum(cs, terms, j + 1, r, deg)

\* Whether an identity holds at row r when every cell it reads is known.
Holds(id, cs, r, fd) ==
    LET v == Unwrap(CellOf(cs, id.terms[1], r, fd.degree))
    IN  IF id.kind = "bit" THEN (v * (v + P - 1)) % P = 0
        ELSE (KnownSum(cs, id.terms, 1, r, fd.degree)
                + id.cfix * fd.fixed_cols[r + 1] + id.k) % P = 0

\* Faulty variant: a contradiction is taken for a satisfied identity.
OnContradictionIgnored == "satisfied"

\* The outcome of a concrete numeric contradiction.
OnContradiction == "conflict"

\* One evaluation of an identity at row r: satisfied, a constraint fixing the
\* single unknown, incomplete (several unknowns), or conflict.
Evaluate(cs, id, r, fd) ==
    LET deg == fd.degree
        unknown == {j \in 1..Len(id.terms) : ~IsSome(CellOf(cs, id.terms[j], r, deg))}
        sum == (KnownSum(cs, id.terms, 1, r, deg) + id.cfix * fd.fixed_cols[r + 1] + id.k) % P
    IN  IF id.kind = "bit"
          THEN [status |-> IF unknown # {} THEN "incomplete"
                           ELSE IF Holds(id, cs, r, fd) THEN "satisfied" ELSE OnContradiction,
                col |-> "", at |-> 0, value |-> 0]
        ELSE IF unknown = {}
          THEN [status |-> IF sum = 0 THEN "satisfied" ELSE OnContradiction,
                col |-> "", at |-> 0, value |-> 0]
        ELSE IF Cardinality(unknown) = 1
          THEN LET t == id.terms[CHOOSE j \in unknown : TRUE]
               IN  [status |-> "assign", col |-> t.col, at |-> TermRow(t, r, deg),
                    value |-> (Neg(sum) * Inv(t.coeff)) % P]
        ELSE [status |-> "incomplete", col |-> "", at |-> 0, value |-> 0]

SetCell(cs, col, at, v) == [cs EXCEPT ![col][at + 1] = Some(v)]


\* ------------------------------------------------------------- generate
\* Faulty variant: the columns are taken before the generator has run.
GenerateStepsTakeFirst ==
    <<"FixedData_new", "determine_global_constraints", "split_out_machines",
      "Generator_new", "take_main", "take_machines", "run", "collect">>

\* The statements of generate after the zero-degree check, in order.
GenerateSteps ==
    <<"FixedData_new", "determine_global_constraints", "split_out_machines",
      "Generator_new", "run", "take_main", "take_machines", "collect">>

After(step) ==
    LET i == CHOOSE j \in 1..Len(GenerateSteps) : GenerateSteps[j] = step
    IN  IF i = Len(GenerateSteps) THEN "returned" ELSE GenerateSteps[i + 1]

\* The position after `step`; the flat_map over the machines is skipped once
\* every machine has yielded.
NextPos(step, ms, tk) ==
    LET n == After(step)
    IN  IF n = "take_machines" /\ \A m \in 1..Len(ms) : tk[m] > 0 THEN After(n) ELSE n

\* Faulty variant: no zero-degree check.
DegreeNeverZero(deg) == FALSE

\* if self.degree.is_zero() { panic!(..) }
DegreeIsZero(deg) == deg = 0

Panic(what) == /\ pc' = "panicked"
               /\ panicAt' = what

\* No call of external_witness is in progress.
NoProbe == [row |-> 0, column |-> 0, panic |-> "", value |-> None, called |-> FALSE]

Init ==
    /\ analyzed \in Programs
    /\ degree \in 0..MaxDegree
    /\ external_witness_values = <<>>
    /\ pc = "new"
    /\ panicAt = ""
    /\ fixed = NoFixedData
    /\ constraints = {}
    /\ retained_identities = <<>>
    /\ machines = <<>>
    /\ base_witnesses = {}
    /\ base_identities = <<>>
    /\ cells = <<>>
    /\ row = 0
    /\ idx = 1
    /\ progress = FALSE
    /\ queryCalls = 0
    /\ conflictSeen = FALSE
    /\ runReturned = FALSE
    /\ taken = [o \in {0} |-> 0]
    /\ takenEarly = FALSE
    /\ main_columns = <<>>
    /\ machine_columns = <<>>
    /\ result = <<>>
    /\ probe = NoProbe

\* WitnessGenerator::with_external_witness_values.  A further call only replaces
\* the list, which gives no state a single call does not give.
with_external_witness_values ==
    /\ pc = "new"
    /\ external_witness_values = <<>>
    /\ \E list \in ExtLists(analyzed, degree) : external_witness_values' = list
    /\ UNCHANGED <<analyzed, degree, pc, panicAt, fixed, constraints, retained_identities,
                   machines, base_witnesses, base_identities, cells, row, idx, progress,
                   queryCalls, conflictSeen, runReturned, taken, takenEarly, main_columns,
                   machine_columns, result, probe>>

\* generate, lines 87-89: the zero-degree check.
generate_zero_check ==
    /\ pc = "new"
    /\ IF DegreeIsZero(degree)
         THEN Panic("zero_degree")
         ELSE pc' = GenerateSteps[1] /\ UNCHANGED panicAt
    /\ UNCHANGED <<analyzed, degree, external_witness_values, fixed, constraints,
                   retained_identities, machines, base_witnesses, base_identities, cells,
                   row, idx, progress, queryCalls, conflictSeen, runReturned, taken,
                   takenEarly, main_columns, machine_columns, result, probe>>

\* generate, lines 90-95: FixedData::new.
generate_FixedData_new ==
    /\ pc = "FixedData_new"
    /\ LET r == FixedData_new(analyzed, degree, FixedColValues(degree), external_witness_values)
       IN  IF r.panic # ""
             THEN Panic(r.panic) /\ UNCHANGED fixed
             ELSE /\ fixed' = r.data
                  /\ pc' = NextPos(pc, machines, taken)
                  /\ UNCHANGED panicAt
    /\ UNCHANGED <<analyzed, degree, external_witness_values, constraints,
                   retained_identities, machines, base_witnesses, base_identities, cells,
                   row, idx, progress, queryCalls, conflictSeen, runReturned, taken,
                   takenEarly, main_columns, machine_columns, result, probe>>

\* generate, lines 96-103: inline_intermediate_polynomials (the inputs have no
\* intermediate polynomials) and determine_global_constraints.
generate_determine_global_constraints ==
    /\ pc = "determine_global_constraints"
    /\ LET g == determine_global_constraints(analyzed.identities)
       IN  /\ constraints' = g.constraints
           /\ retained_identities' = g.retained
    /\ pc' = NextPos(pc, machines, taken)
    /\ UNCHANGED <<analyzed, degree, external_witness_values, panicAt, fixed, machines,
                   base_witnesses, base_identities, cells, row, idx, progress, queryCalls,
                   conflictSeen, runReturned, taken, takenEarly, main_columns,
                   machine_columns, result, probe>>

\* generate, lines 104-113: split_out_machines.
generate_split_out_machines ==
    /\ pc = "split_out_machines"
    /\ \E chosen \in SUBSET Components(retained_identities) :
         LET out == ExtractionOutput(analyzed, retained_identities, chosen)
         IN  /\ machines' = out.machines
             /\ base_witnesses' = out.base_witnesses
             /\ base_identities' = out.base_identities
             /\ taken' = [o \in 0..Len(out.machines) |-> 0]
             /\ machine_columns' = [m \in 1..Len(out.machines) |-> <<>>]
             /\ pc' = After(pc)
    /\ UNCHANGED <<analyzed, degree, external_witness_values, panicAt, fixed, constraints,
                   retained_identities, cells, row, idx, progress, queryCalls, conflictSeen,
                   runReturned, takenEarly, main_columns, result, probe>>

\* ------------------------------------------------------------ Generator
\* The fresh rows of the generator and the machines: every cell is unknown
\* except the ones an external witness column pre-fills.
FreshCells(fd) ==
    [n \in {column_name(fd, c) : c \in ColumnIds(fd)} |->
        [i \in 1..fd.degree |-> external_witness(fd, i - 1, ColumnId(fd, n)).value]]
FreshCellsPanic(fd) ==
    LET bad == {external_witness(fd, r, c).panic : r \in 0..(fd.degree - 1), c \in ColumnIds(fd)}
                 \ {""}
    IN  IF bad = {} THEN "" ELSE CHOOSE b \in bad : TRUE

\* generate, lines 114-129: MutableState and Generator::new.  The rows are
\* created and no external_witness call is left in progress.
generate_Generator_new ==
    /\ pc = "Generator_new"
    /\ IF FreshCellsPanic(fixed) # ""
         THEN Panic(FreshCellsPanic(fixed)) /\ UNCHANGED cells
         ELSE /\ cells' = FreshCells(fixed)
              /\ pc' = NextPos(pc, machines, taken)
              /\ UNCHANGED panicAt
    /\ row' = 0
    /\ idx' = 1
    /\ progress' = FALSE
    /\ probe' = NoProbe
    /\ UNCHANGED <<analyzed, degree, external_witness_values, fixed, constraints,
                   retained_identities, machines, base_witnesses, base_identities,
                   queryCalls, conflictSeen, runReturned, taken, takenEarly, main_columns,
                   machine_columns, result>>

\* Generator::run, one identity of the pass over the current row, evaluated by
\* its owner (the main generator or the machine consulted through MutableState).
process_identity ==
    /\ pc = "run"
    /\ row < degree
    /\ idx \in 1..Len(retained_identities)
    /\ LET ev == Evaluate(cells, retained_identities[idx], row, fixed)
       IN  IF ev.status = "conflict"
             THEN /\ Panic("conflict")
                  /\ conflictSeen' = TRUE
                  /\ UNCHANGED <<cells, idx, progress>>
             ELSE /\ cells' = IF ev.status = "assign"
                                THEN SetCell(cells, ev.col, ev.at, ev.value) ELSE cells
                  /\ progress' = (progress \/ ev.status = "assign")
                  /\ idx' = idx + 1
                  /\ UNCHANGED <<pc, panicAt, conflictSeen>>
    /\ UNCHANGED <<analyzed, degree, external_witness_values, fixed, constraints,
                   retained_identities, machines, base_witnesses, base_identities, row,
                   queryCalls, runReturned, taken, takenEarly, main_columns,
                   machine_columns, result, probe>>

\* What the query callback may answer: FnMut(&str) -> Option<T>.
QueryAnswers == {None} \cup {Some(v) : v \in Field}

\* Generator::run: the columns bound to a query that are still unknown in the
\* current row are resolved through the query callback.
process_queries ==
    /\ pc = "run"
    /\ row < degree
    /\ idx = Len(retained_identities) + 1
    /\ LET Q == {c \in ColumnIds(fixed) :
                   /\ fixed.witness_cols[c + 1].query
                   /\ ~IsSome(cells[column_name(fixed, c)][row + 1])}
       IN  \E answer \in [Q -> QueryAnswers] :
             /\ cells' = [n \in DOMAIN cells |->
                            IF \E c \in Q : column_name(fixed, c) = n /\ IsSome(answer[c])
                              THEN [cells[n] EXCEPT ![row + 1] = answer[ColumnId(fixed, n)]]
                              ELSE cells[n]]
             /\ queryCalls' = queryCalls + Cardinality(Q)
             /\ progress' = (progress \/ \E c \in Q : IsSome(answer[c]))
    /\ idx' = idx + 1
    /\ UNCHANGED <<analyzed, degree, external_witness_values, pc, panicAt, fixed,
                   constraints, retained_identities, machines, base_witnesses,
                   base_identities, row, conflictSeen, runReturned, taken, takenEarly,
                   main_columns, machine_columns, result, probe>>

\* The base witnesses still unknown in row r.
UnknownBase(cs, r) == {n \in base_witnesses : ~IsSome(cs[n][r + 1])}

\* Faulty variant: the pass is repeated whether or not it made progress.
PassOutcomeRetry(unknown, prog) ==
    IF unknown = {} THEN "next_row" ELSE "retry"

\* The termination check after a full pass over the row.
PassOutcome(unknown, prog) ==
    IF unknown = {} THEN "next_row"
    ELSE IF prog THEN "retry"
    ELSE "fatal"

\* Generator::run, the end of a pass: the row is complete, or the pass is
\* repeated after progress, or the row is unsatisfiable.
end_pass ==
    /\ pc = "run"
    /\ row < degree
    /\ idx = Len(retained_identities) + 2
    /\ LET o == PassOutcome(UnknownBase(cells, row), progress)
       IN  IF o = "fatal"
             THEN Panic("no_progress") /\ UNCHANGED <<row, idx, progress>>
             ELSE /\ row' = IF o = "next_row" THEN row + 1 ELSE row
                  /\ idx' = 1
                  /\ progress' = FALSE
                  /\ UNCHANGED <<pc, panicAt>>
    /\ UNCHANGED <<analyzed, degree, external_witness_values, fixed, constraints,
                   retained_identities, machines, base_witnesses, base_identities, cells,
                   queryCalls, conflictSeen, runReturned, taken, takenEarly, main_columns,
                   machine_columns, result, probe>>

\* generate, line 131: generator.run returns after the last row.
run_return ==
    /\ pc = "run"
    /\ row >= degree
    /\ runReturned' = TRUE
    /\ pc' = NextPos(pc, machines, taken)
    /\ UNCHANGED <<analyzed, degree, external_witness_values, panicAt, fixed, constraints,
                   retained_identities, machines, base_witnesses, base_identities, cells,
                   row, idx, progress, queryCalls, conflictSeen, taken, takenEarly,
                   main_columns, machine_columns, result, probe>>

\* take_witness_col_values of owner o: one vector per owned column; a column
\* that is only partially filled is a fatal defect.
IsPartial(cs, o) == \E n \in Owned(o) : \E i \in 1..Len(cs[n]) : ~IsSome(cs[n][i])
take_witness_col_values(cs, o) ==
    [n \in Owned(o) |-> [i \in 1..Len(cs[n]) |-> Unwrap(cs[n][i])]]

\* generate, line 134: the main generator yields its columns.
take_main ==
    /\ pc = "take_main"
    /\ taken' = [taken EXCEPT ![0] = @ + 1]
    /\ takenEarly' = (takenEarly \/ ~runReturned)
    /\ IF IsPartial(cells, 0)
         THEN Panic("partial_column") /\ UNCHANGED main_columns
         ELSE /\ main_columns' = take_witness_col_values(cells, 0)
              /\ pc' = NextPos(pc, machines, taken')
              /\ UNCHANGED panicAt
    /\ UNCHANGED <<analyzed, degree, external_witness_values, fixed, constraints,
                   retained_identities, machines, base_witnesses, base_identities, cells,
                   row, idx, progress, queryCalls, conflictSeen, runReturned,
                   machine_columns, result, probe>>

\* generate, lines 135-138: the next machine of machines.iter_mut() yields.
take_machine ==
    /\ pc = "take_machines"
    /\ \E m \in 1..Len(machines) :
         /\ taken[m] = 0
         /\ \A k \in 1..(m - 1) : taken[k] > 0
         /\ taken' = [taken EXCEPT ![m] = @ + 1]
         /\ takenEarly' = (takenEarly \/ ~runReturned)
         /\ IF IsPartial(cells, m)
              THEN Panic("partial_column") /\ UNCHANGED machine_columns
              ELSE /\ machine_columns' =
                        [machine_columns EXCEPT ![m] = take_witness_col_values(cells, m)]
                   /\ pc' = IF \A k \in 1..Len(machines) : taken'[k] > 0
                              THEN After(pc) ELSE pc
                   /\ UNCHANGED panicAt
    /\ UNCHANGED <<analyzed, degree, external_witness_values, fixed, constraints,
                   retained_identities, machines, base_witnesses, base_identities, cells,
                   row, idx, progress, queryCalls, conflictSeen, runReturned,
                   main_columns, result, probe>>

\* Faulty variant: the main generator's columns are not chained in.
CollectMachinesOnly(mcols, main) ==
    [n \in UNION {DOMAIN mcols[m] : m \in 1..Len(mcols)} |->
        mcols[Max({m \in 1..Len(mcols) : n \in DOMAIN mcols[m]})][n]]

\* .flat_map(..).chain(main_columns).collect::<BTreeMap<_, _>>(): the machines'
\* columns in order, then the main columns; a later entry replaces an earlier one.
CollectColumns(mcols, main) ==
    [n \in (UNION {DOMAIN mcols[m] : m \in 1..Len(mcols)}) \cup DOMAIN main |->
        IF n \in DOMAIN main THEN main[n]
        ELSE mcols[Max({m \in 1..Len(mcols) : n \in DOMAIN mcols[m]})][n]]

\* The order of the keys of a BTreeMap<String, _>.
KeyOrder == <<"A", "B", "W", "X">>

\* Faulty variant: the columns are returned in the order of the BTreeMap's keys.
RECURSIVE InKeyOrder(_, _, _, _)
InKeyOrder(polys, i, columns, acc) ==
    IF i > Len(KeyOrder) THEN
        IF \A j \in 1..Len(polys) : polys[j].absolute_name \in DOMAIN columns
          THEN [panic |-> "", out |-> acc] ELSE [panic |-> "missing_column", out |-> acc]
    ELSE InKeyOrder(polys, i + 1, columns,
           IF KeyOrder[i] \in DOMAIN columns
             THEN Append(acc, [name |-> KeyOrder[i], values |-> columns[KeyOrder[i]]])
             ELSE acc)

\* generate, lines 145-153: for every committed polynomial in source order,
\* columns.remove(name).unwrap() and assert!(!column.is_empty()).
RECURSIVE InSourceOrder(_, _, _, _)
InSourceOrder(polys, i, columns, acc) ==
    IF i > Len(polys) THEN [panic |-> "", out |-> acc]
    ELSE LET name == polys[i].absolute_name
         IN  IF name \notin DOMAIN columns THEN [panic |-> "missing_column", out |-> acc]
             ELSE IF Len(columns[name]) = 0 THEN [panic |-> "empty_column", out |-> acc]
             ELSE InSourceOrder(polys, i + 1,
                    [n \in DOMAIN columns \ {name} |-> columns[n]],
                    Append(acc, [name |-> name, values |-> columns[name]]))

\* The Vec generate returns, or the panic of the final loop.
Collected(an, mcols, main) == InSourceOrder(an.polys, 1, CollectColumns(mcols, main), <<>>)

\* generate, lines 139-153: merge, reorder and return.
collect ==
    /\ pc = "collect"
    /\ LET r == Collected(analyzed, machine_columns, main_columns)
       IN  IF r.panic # ""
             THEN Panic(r.panic) /\ UNCHANGED result
             ELSE /\ result' = r.out
                  /\ pc' = After(pc)
                  /\ UNCHANGED panicAt
    /\ UNCHANGED <<analyzed, degree, external_witness_values, fixed, constraints,
                   retained_identities, machines, base_witnesses, base_identities, cells,
                   row, idx, progress, queryCalls, conflictSeen, runReturned, taken,
                   takenEarly, main_columns, machine_columns, probe>>

\* The rows external_witness is asked for: beyond the last row as well.
ProbeRows == 0..(2 * MaxDegree + 1)

\* A call of FixedData::external_witness(row, column) while the rows of the
\* generator are set up; its result is consumed there.
external_witness_call ==
    /\ pc = "Generator_new"
    /\ ~probe.called
    /\ \E r \in ProbeRows, c \in ColumnIds(fixed) :
         LET e == external_witness(fixed, r, c)
         IN  probe' = [row |-> r, column |-> c, panic |-> e.panic, value |-> e.value,
                       called |-> TRUE]
    /\ UNCHANGED <<analyzed, degree, external_witness_values, pc, panicAt, fixed,
                   constraints, retained_identities, machines, base_witnesses,
                   base_identities, cells, row, idx, progress, queryCalls, conflictSeen,
                   runReturned, taken, takenEarly, main_columns, machine_columns, result>>

Next ==
    \/ with_external_witness_values
    \/ generate_zero_check
    \/ generate_FixedData_new
    \/ generate_determine_global_constraints
    \/ generate_split_out_machines
    \/ external_witness_call
    \/ generate_Generator_new
    \/ process_identity
    \/ process_queries
    \/ end_pass
    \/ run_return
    \/ take_main
    \/ take_machine
    \/ collect

Spec == Init /\ [][Next]_vars

\* generate is called and, being one sequential call, runs on until it returns
\* or panics.
Running ==
    \/ generate_zero_check
    \/ generate_FixedData_new
    \/ generate_determine_global_constraints
    \/ generate_split_out_machines
    \/ generate_Generator_new
    \/ process_identity
    \/ process_queries
    \/ end_pass
    \/ run_return
    \/ take_main
    \/ take_machine
    \/ collect

FairSpec == Spec /\ WF_vars(Running)

\* ================================================================ properties
Returned == pc = "returned"
Aborted == pc = "panicked"
\* generate has not got past FixedData::new.
InSetup == pc \in {"new", "FixedData_new"}
\* generate aborted at the zero-degree check or inside FixedData::new.
AbortedInSetup == Aborted /\ panicAt \in FixedDataPanics \cup {"zero_degree"}

Ext == external_witness_values
\* Pair i is not replaced by a later pair of the same name.
IsLastOfName(i) == \A j \in (i + 1)..Len(Ext) : Ext[j].name # Ext[i].name
ResultOf(name) == result[CHOOSE j \in 1..Len(result) : result[j].name = name].values
ResultCells ==
    [n \in {result[j].name : j \in 1..Len(result)} |->
        [i \in 1..Len(ResultOf(n)) |-> Some(ResultOf(n)[i])]]

\* C1: whenever generate returns, the result has one entry per committed
\* polynomial, in declaration order, with pairwise different names, and every
\* vector has exactly `degree` elements.
C1_OutputShape ==
    Returned =>
        /\ Len(result) = Len(analyzed.polys)
        /\ \A i \in 1..Len(result) : result[i].name = analyzed.polys[i].absolute_name
        /\ \A i, j \in 1..Len(result) : i # j => result[i].name # result[j].name
        /\ \A i \in 1..Len(result) : Len(result[i].values) = degree
\* A two-column result of full degree, one column yielded by a machine.
C1_Witness ==
    /\ Returned
    /\ Len(result) = 2
    /\ degree = MaxDegree
    /\ Len(machines) = 1

\* C2: whenever generate returns, every identity of the input, the pruned ones
\* included, holds at every row of the returned witness (the row after the last
\* one being row 0).
C2_AllIdentitiesHold ==
    Returned =>
        \A k \in 1..Len(analyzed.identities) : \A r \in 0..(degree - 1) :
            Holds(analyzed.identities[k], ResultCells, r, fixed)

\* C3 as stated: whenever generate returns, the output of a column equals every
\* vector supplied for it.
C3_EverySuppliedVector ==
    Returned => \A i \in 1..Len(Ext) : ResultOf(Ext[i].name) = Ext[i].values
\* C3 amended: whenever generate returns, the output of a column equals the last
\* vector supplied for it, whoever owns the column.
C3_LastSuppliedVector ==
    Returned => \A i \in 1..Len(Ext) :
        IsLastOfName(i) => ResultOf(Ext[i].name) = Ext[i].values
\* A returned witness with an override on a machine-owned column and one on a
\* base column.
C3_Witness ==
    /\ Returned
    /\ \E i, j \in 1..Len(Ext) : Owner(Ext[i].name) > 0 /\ Owner(Ext[j].name) = 0

\* C4 as stated: with a positive degree, a supplied pair of a wrong length makes
\* generate abort inside FixedData::new, also when its name is repeated later.
C4_AnyWrongLengthAborts ==
    (degree > 0 /\ \E i \in 1..Len(Ext) : Len(Ext[i].values) # degree)
        => InSetup \/ (Aborted /\ panicAt \in FixedDataPanics)
\* C4 amended: with a positive degree, a supplied pair of a wrong length that no
\* later pair of the same name replaces makes generate abort inside FixedData::new.
C4_LastWrongLengthAborts ==
    (degree > 0 /\ \E i \in 1..Len(Ext) : IsLastOfName(i) /\ Len(Ext[i].values) # degree)
        => InSetup \/ (Aborted /\ panicAt \in FixedDataPanics)
\* The length assertion failed on the second of two pairs of one name.
C4_Witness ==
    /\ Aborted
    /\ panicAt = "external_length"
    /\ Len(Ext) = 2
    /\ Ext[1].name = Ext[2].name
    /\ Len(Ext[1].values) = degree

HasArray == \E i \in 1..Len(analyzed.polys) : analyzed.polys[i].length
HasUnknownName == \E i \in 1..Len(Ext) : Ext[i].name \notin PolyNames(analyzed)
\* C5 as stated: a zero degree, an override for an undeclared column, a committed
\* array or an override of a wrong length aborts generate before the analysis,
\* the extraction and the run, with no query made.
C5_AnyConfigErrorAbortsEarly ==
    (\/ degree = 0
     \/ HasUnknownName
     \/ HasArray
     \/ \E i \in 1..Len(Ext) : Len(Ext[i].values) # degree)
        => (InSetup \/ AbortedInSetup) /\ queryCalls = 0
\* C5 amended: the same, for an override of a wrong length that no later pair of
\* the same name replaces.
C5_ConfigErrorAbortsEarly ==
    (\/ degree = 0
     \/ HasUnknownName
     \/ HasArray
     \/ \E i \in 1..Len(Ext) : IsLastOfName(i) /\ Len(Ext[i].values) # degree)
        => (InSetup \/ AbortedInSetup) /\ queryCalls = 0
\* An override for an undeclared column of a program with a query column
\* aborted FixedData::new.
C5_Witness ==
    /\ Aborted
    /\ panicAt = "non_existent_columns"
    /\ analyzed.polys[1].query
    /\ degree > 0

\* C6: take_witness_col_values never runs before Generator::run has returned,
\* and when generate has merged the columns it has run exactly once on the main
\* generator and on each machine.
C6_TakeAfterRunOnce ==
    /\ ~takenEarly
    /\ \A o \in DOMAIN taken : taken[o] <= 1 /\ (taken[o] > 0 => runReturned)
    /\ pc \in {"collect", "returned"} => \A o \in Owners : taken[o] = 1
\* generate returned with two machines.
C6_Witness ==
    /\ Returned
    /\ Len(machines) = 2
    /\ \A o \in Owners : taken[o] = 1

Extracted == pc \in {"Generator_new", "run", "take_main", "take_machines", "collect", "returned"}
IdentityOwners(id) ==
    {m \in 1..Len(machines) : IdentityColumns(id) \subseteq machines[m]}
        \cup (IF id \in SeqRange(base_identities) THEN {0} ELSE {})
\* C7: after the extraction every committed column has exactly one owner and so
\* has every retained identity; when the columns are merged no name is yielded
\* twice and the merge holds every committed column.
C7_Partition ==
    /\ Extracted =>
         /\ \A n \in PolyNames(analyzed) : Cardinality({o \in Owners : n \in Owned(o)}) = 1
         /\ \A k \in 1..Len(retained_identities) :
              Cardinality(IdentityOwners(retained_identities[k])) = 1
    /\ pc \in {"collect", "returned"} =>
         /\ \A m \in 1..Len(machines) : DOMAIN machine_columns[m] \cap DOMAIN main_columns = {}
         /\ \A m, k \in 1..Len(machines) :
              m # k => DOMAIN machine_columns[m] \cap DOMAIN machine_columns[k] = {}
         /\ DOMAIN CollectColumns(machine_columns, main_columns) = PolyNames(analyzed)
\* The merge of the columns of two machines and of the main generator.
C7_Witness ==
    /\ pc = "collect"
    /\ Len(machines) = 1
    /\ base_witnesses # {}
    /\ DOMAIN machine_columns[1] # {}

\* The identities ask for two different values of one column in one row.
SolvesTo(id) == (Neg(id.k) * Inv(id.terms[1].coeff)) % P
IsAssignment(id) ==
    id.kind = "affine" /\ Len(id.terms) = 1 /\ ~id.terms[1].next /\ id.cfix = 0
RequiresTwoValues ==
    \E i, j \in 1..Len(analyzed.identities) :
        LET a == analyzed.identities[i]
            b == analyzed.identities[j]
        IN  /\ IsAssignment(a) /\ IsAssignment(b)
            /\ a.terms[1].col = b.terms[1].col
            /\ SolvesTo(a) # SolvesTo(b)
\* C8: when the identities require two different values of a column in one row
\* generate never returns, and once a conflict is detected generate has aborted
\* without a result.
C8_ConflictNoWitness ==
    /\ RequiresTwoValues => ~Returned /\ result = <<>>
    /\ conflictSeen => Aborted /\ panicAt = "conflict" /\ result = <<>>
\* The conflict of W = 1 and W = 2 was detected.
C8_Witness ==
    /\ RequiresTwoValues
    /\ conflictSeen
    /\ Aborted

\* C9: generate always ends, returned or aborted; the rows are solved in
\* increasing order; a pass without progress that leaves a base witness of the
\* row unknown ends in the fatal error.
C9_RowSolvingTerminates ==
    /\ <>(Returned \/ Aborted)
    /\ [][row' = row \/ row' = row + 1]_vars
    /\ [][(pc = "run" /\ row < degree /\ idx = Len(retained_identities) + 2
            /\ ~progress /\ UnknownBase(cells, row) # {})
          => (pc' = "panicked" /\ panicAt' = "no_progress")]_vars
\* A row was given up after a pass without progress.
C9_Witness ==
    /\ Aborted
    /\ panicAt = "no_progress"
    /\ row > 0

\* C10: external_witness(row, column) yields element (row mod degree) of the
\* vector supplied for the column, also for row >= degree, and no value when no
\* vector was supplied; it never indexes outside the vector.
C10_ExternalWitness ==
    probe.called =>
        LET name == analyzed.polys[probe.column + 1].absolute_name
            supplied == {i \in 1..Len(Ext) : Ext[i].name = name /\ IsLastOfName(i)}
        IN  /\ probe.panic = ""
            /\ supplied = {} => probe.value = None
            /\ \A i \in supplied :
                 /\ (probe.row % degree) + 1 \in 1..Len(Ext[i].values)
                 /\ probe.value = Some(Ext[i].values[(probe.row % degree) + 1])
\* A lookup beyond the last row that found a value.
C10_Witness ==
    /\ probe.called
    /\ probe.row > degree
    /\ IsSome(probe.value)
====
